---- MODULE Spec2Model ----
(***************************************************************************)
(* A model of lattice_sdk.LatticeDB (src/lattice_sdk/__init__.py): the     *)
(* client's configuration, the shared request primitive _request, and the  *)
(* operations add, progress, search, list and clear, each followed step by *)
(* step from the call to the value or exception the caller receives.       *)
(*                                                                         *)
(* Python values are records with a fixed shape, so that any two of them   *)
(* can be compared:                                                        *)
(*   t  the type tag: "none", "bool", "num", "str", "list", "dict", and    *)
(*      "absent" for a key a dict does not hold                            *)
(*   n  the number (or 0/1 for a bool),  s  the string,                    *)
(*   a  the items of a list (opaque elements, named by naturals)           *)
(* An "atom" has these four fields; a "value" has a fifth, o, the fields   *)
(* of a dict (a function from the keys to atoms).  Numbers are modelled by *)
(* naturals: the code never computes with them, it only converts them.     *)
(***************************************************************************)
EXTENDS Integers, Sequences, FiniteSets, TLC

\* ------------------------------------------------------------- bounds

\* Number of calls the caller may have in progress on one client at once.
NumCalls == 2
\* Numbers on the wire and in arguments range over 0..MaxNum.
MaxNum == 1

\* ------------------------------------------------------- Python values

Atom(t, n, s, a) == [t |-> t, n |-> n, s |-> s, a |-> a]
None == Atom("none", 0, "", <<>>)
Absent == Atom("absent", 0, "", <<>>)
Bool(b) == Atom("bool", IF b THEN 1 ELSE 0, "", <<>>)
Num(n) == Atom("num", n, "", <<>>)
Str(s) == Atom("str", 0, s, <<>>)
List(a) == Atom("list", 0, "", a)

\* The keys a response object of the model may hold, in the order they are
\* written, and the keys of a request body or query string.
PayloadKeySeq == <<"id", "job_id", "progress", "results", "error", "detail">>
PayloadKeys == {PayloadKeySeq[i] : i \in 1..Len(PayloadKeySeq)}
BodyKeys ==
    {"knowledge_base", "chunker", "async", "embedding_model", "max_chars",
     "path", "origin", "text", "source", "query", "k", "strategy", "page",
     "per_page"}

NoFields == [k \in PayloadKeys |-> Absent]
Lift(x) == [t |-> x.t, n |-> x.n, s |-> x.s, a |-> x.a, o |-> NoFields]
Dict(o) == [t |-> "dict", n |-> 0, s |-> "", a |-> <<>>, o |-> o]
AtomOf(v) == Atom(v.t, v.n, v.s, v.a)

\* bool(x): Python's truth value of an atom.
PyTruthy(x) ==
    CASE x.t = "none" -> FALSE
      [] x.t = "absent" -> FALSE
      [] x.t = "bool" -> x.n # 0
      [] x.t = "num" -> x.n # 0
      [] x.t = "str" -> x.s # ""
      [] x.t = "list" -> x.a # <<>>
      [] OTHER -> TRUE

\* x or y
PyOr(x, y) == IF PyTruthy(x) THEN x ELSE y

RECURSIVE JoinNums(_)
JoinNums(a) ==
    IF a = <<>> THEN ""
    ELSE IF Len(a) = 1 THEN ToString(a[1])
    ELSE ToString(a[1]) \o ", " \o JoinNums(Tail(a))

\* repr(x) of an atom.
PyRepr(x) ==
    CASE x.t = "none" -> "None"
      [] x.t = "bool" -> IF x.n # 0 THEN "True" ELSE "False"
      [] x.t = "num" -> ToString(x.n)
      [] x.t = "str" -> "'" \o x.s \o "'"
      [] x.t = "list" -> "[" \o JoinNums(x.a) \o "]"
      [] OTHER -> ""

RECURSIVE JoinItems(_, _)
JoinItems(o, ks) ==
    IF ks = <<>> THEN ""
    ELSE LET k == Head(ks)
             rest == JoinItems(o, Tail(ks))
         IN  IF o[k].t = "absent" THEN rest
             ELSE "'" \o k \o "': " \o PyRepr(o[k])
                  \o (IF rest = "" THEN "" ELSE ", " \o rest)

\* str(v) of a value: a str is itself, anything else is its repr.
PyStr(v) ==
    CASE v.t = "str" -> v.s
      [] v.t = "dict" -> "{" \o JoinItems(v.o, PayloadKeySeq) \o "}"
      [] OTHER -> PyRepr(AtomOf(v))

\* float(x): the number for a number or a bool, the parsed number for a
\* string that spells one, ValueError for any other string, TypeError for
\* None and for a list.
PyFloat(x) ==
    CASE x.t \in {"num", "bool"} -> [exc |-> "", val |-> Num(x.n)]
      [] x.t = "str" ->
           IF \E n \in 0..MaxNum : ToString(n) = x.s
           THEN [exc |-> "", val |-> Num(CHOOSE n \in 0..MaxNum : ToString(n) = x.s)]
           ELSE [exc |-> "ValueError", val |-> None]
      [] OTHER -> [exc |-> "TypeError", val |-> None]

\* d.get(k) and d.get(k, default) of a dict value.
Get(d, k) == IF d.o[k].t = "absent" THEN None ELSE d.o[k]
GetDefault(d, k, default) == IF d.o[k].t = "absent" THEN default ELSE d.o[k]

\* s.rstrip('/')
RECURSIVE RStripSlash(_)
RStripSlash(s) ==
    IF Len(s) > 0 /\ SubSeq(s, Len(s), Len(s)) = "/"
    THEN RStripSlash(SubSeq(s, 1, Len(s) - 1))
    ELSE s

\* ------------------------------------------------ program constants

\* response.status_code >= 400
ErrorStatus == 400
\* LatticeDB.timeout: float = 30.0
DefaultTimeout == 30
\* search(..., k: int = 5)
DefaultK == 5
\* list(*, page: int = 1, per_page: int = 50)
DefaultPage == 1
DefaultPerPage == 50

\* ---------------------------------------------- outcomes of a call

\* What a call hands its caller: a returned value, or a raised exception.
\* kind names the failure as the contract does ("Validation", "Transport",
\* "Service", "Protocol"), or "Conversion" for an exception of a Python
\* conversion that the contract does not name; exc is the Python class.
Returned(v) ==
    [kind |-> "return", exc |-> "", code |-> 0, message |-> "", text |-> "", val |-> v]
Raised(kind, exc, code, message, text) ==
    [kind |-> kind, exc |-> exc, code |-> code, message |-> message, text |-> text,
     val |-> Lift(None)]
NoOutcome == Raised("none", "", 0, "", "")

\* ------------------------------------------------------------ _request

\* headers = kwargs.pop("headers", {}); headers["Authorization"] = ...
request_headers(s) == [Authorization |-> "Bearer " \o s.api_key]

\* url = f"{self.base_url.rstrip('/')}{path}"
request_url(s, path) == RStripSlash(s.base_url) \o path

\* try: payload = response.json()  except Exception: payload = {"error": response.text}
request_payload(response) ==
    IF response.isjson THEN response.val
    ELSE Dict([NoFields EXCEPT !["error"] = Str(response.text)])

\* A faulty variant of request_result: the isinstance check of line 52 is left out.
request_result_unchecked(response) ==
    LET payload == request_payload(response)
        message == IF payload.t = "dict" THEN Lift(Get(payload, "error"))
                   ELSE Lift(Str(PyStr(payload)))
    IN  IF response.status >= ErrorStatus
        THEN Raised("Service", "RuntimeError", response.status, PyStr(message),
                    ToString(response.status) \o " " \o PyStr(message))
        ELSE Returned(payload)

\* Lines 48-54: the status check, the object check, the payload.
request_result(response) ==
    LET payload == request_payload(response)
        message == IF payload.t = "dict" THEN Lift(Get(payload, "error"))
                   ELSE Lift(Str(PyStr(payload)))
    IN  IF response.status >= ErrorStatus
        THEN Raised("Service", "RuntimeError", response.status, PyStr(message),
                    ToString(response.status) \o " " \o PyStr(message))
        ELSE IF payload.t # "dict"
        THEN Raised("Protocol", "RuntimeError", 0, "Unexpected API response format",
                    "Unexpected API response format")
        ELSE Returned(payload)

\* ----------------------------------------------------------------- add

NoBody == [k \in BodyKeys |-> Absent]

\* A faulty variant of add_validate: only "neither" is rejected.
add_validate_neither(a) ==
    IF a.text = None /\ a.source = None
    THEN Raised("Validation", "ValueError", 0, "Either text or source must be provided",
                "Either text or source must be provided")
    ELSE NoOutcome

\* Lines 67-70: NoOutcome when the arguments pass.
add_validate(a) ==
    IF a.text = None /\ a.source = None
    THEN Raised("Validation", "ValueError", 0, "Either text or source must be provided",
                "Either text or source must be provided")
    ELSE IF a.text # None /\ a.source # None
    THEN Raised("Validation", "ValueError", 0, "Provide text or source, not both",
                "Provide text or source, not both")
    ELSE NoOutcome

\* A faulty variant of add_body: path is written whether or not it was given.
add_body_path_always(s, a) ==
    [k \in BodyKeys |->
        CASE k = "knowledge_base" -> Str(s.knowledge_base)
          [] k = "chunker" -> Str(a.chunker)
          [] k = "async" -> Bool(a.async_mode)
          [] k = "embedding_model" ->
               IF PyTruthy(s.embedding_model) THEN s.embedding_model ELSE Absent
          [] k = "max_chars" -> IF a.max_chars # None THEN a.max_chars ELSE Absent
          [] k = "path" -> a.path
          [] k = "origin" -> IF a.origin # None THEN a.origin ELSE Absent
          [] k = "text" -> IF a.text # None THEN a.text ELSE Absent
          [] k = "source" -> IF a.source # None THEN a.source ELSE Absent
          [] OTHER -> Absent]

\* Lines 72-89.
add_body(s, a) ==
    [k \in BodyKeys |->
        CASE k = "knowledge_base" -> Str(s.knowledge_base)
          [] k = "chunker" -> Str(a.chunker)
          [] k = "async" -> Bool(a.async_mode)
          [] k = "embedding_model" ->
               IF PyTruthy(s.embedding_model) THEN s.embedding_model ELSE Absent
          [] k = "max_chars" -> IF a.max_chars # None THEN a.max_chars ELSE Absent
          [] k = "path" -> IF a.path # None THEN a.path ELSE Absent
          [] k = "origin" -> IF a.origin # None THEN a.origin ELSE Absent
          [] k = "text" -> IF a.text # None THEN a.text ELSE Absent
          [] k = "source" -> IF a.source # None THEN a.source ELSE Absent
          [] OTHER -> Absent]

\* Lines 92-97.
add_result(a, payload) ==
    IF a.async_mode
    THEN LET job_id == PyOr(Get(payload, "id"), Get(payload, "job_id"))
         IN  IF ~PyTruthy(job_id)
             THEN Raised("Protocol", "RuntimeError", 0,
                         "Add job id missing from API response",
                         "Add job id missing from API response")
             ELSE Returned(Lift(Str(PyStr(Lift(job_id)))))
    ELSE Returned(payload)

\* ------------------------------------------------------------ progress

\* f"/api/rag/progress/{job_id}"
progress_path(a) == "/api/rag/progress/" \o a.job_id

\* Lines 101-103.
progress_result(a, payload) ==
    IF a.details THEN Returned(payload)
    ELSE LET f == PyFloat(GetDefault(payload, "progress", Num(0)))
         IN  IF f.exc # ""
             THEN Raised("Conversion", f.exc, 0, "", "")
             ELSE Returned(Lift(f.val))

\* -------------------------------------------------------------- search

\* Lines 106-113.
search_body(s, a) ==
    [k \in BodyKeys |->
        CASE k = "query" -> Str(a.query)
          [] k = "k" -> Num(a.k)
          [] k = "strategy" -> Str(a.strategy)
          [] k = "knowledge_base" -> Str(s.knowledge_base)
          [] k = "embedding_model" ->
               IF PyTruthy(s.embedding_model) THEN s.embedding_model ELSE Absent
          [] OTHER -> Absent]

\* A faulty variant of search_result: payload["results"], a KeyError when absent.
search_result_subscript(payload) ==
    IF payload.o["results"].t = "absent"
    THEN Raised("Conversion", "KeyError", 0, "results", "results")
    ELSE Returned(Lift(payload.o["results"]))

\* Line 115.
search_result(payload) == Returned(Lift(GetDefault(payload, "results", List(<<>>))))

\* ------------------------------------------------------- list and clear

\* Lines 118-124.
list_params(s, a) ==
    [k \in BodyKeys |->
        CASE k = "page" -> Num(a.page)
          [] k = "per_page" -> Num(a.per_page)
          [] k = "knowledge_base" -> Str(s.knowledge_base)
          [] k = "embedding_model" ->
               IF PyTruthy(s.embedding_model) THEN s.embedding_model ELSE Absent
          [] OTHER -> Absent]

\* Lines 128-130.
clear_body(s) ==
    [k \in BodyKeys |->
        CASE k = "knowledge_base" -> Str(s.knowledge_base)
          [] k = "embedding_model" ->
               IF PyTruthy(s.embedding_model) THEN s.embedding_model ELSE Absent
          [] OTHER -> Absent]

\* ------------------------------------------- the five operations

NoRequest ==
    [method |-> "", path |-> "", url |-> "", headers |-> [Authorization |-> ""],
     json |-> NoBody, params |-> NoBody]

\* The method, path and json=/params= each operation hands to _request
\* (lines 91, 100, 114, 125, 131).
operation_request(s, o, a) ==
    CASE o = "add" ->
           [NoRequest EXCEPT !.method = "POST", !.path = "/api/rag/add",
                             !.json = add_body(s, a)]
      [] o = "progress" ->
           [NoRequest EXCEPT !.method = "GET", !.path = progress_path(a)]
      [] o = "search" ->
           [NoRequest EXCEPT !.method = "POST", !.path = "/api/rag/search",
                             !.json = search_body(s, a)]
      [] o = "list" ->
           [NoRequest EXCEPT !.method = "GET", !.path = "/api/rag/list",
                             !.params = list_params(s, a)]
      [] o = "clear" ->
           [NoRequest EXCEPT !.method = "POST", !.path = "/api/rag/remove",
                             !.json = clear_body(s)]

\* Lines 37-39: the request as _request sends it.
request_prepared(s, r) ==
    [r EXCEPT !.headers = request_headers(s), !.url = request_url(s, r.path)]

\* What each operation makes of the payload _request returned
\* (lines 92-97, 101-103, 115, 125, 131).
operation_result(o, a, payload) ==
    CASE o = "add" -> add_result(a, payload)
      [] o = "progress" -> progress_result(a, payload)
      [] o = "search" -> search_result(payload)
      [] o = "list" -> Returned(payload)
      [] o = "clear" -> Returned(payload)

\* ------------------------------------------------ inputs of the model

DefaultArgs ==
    [text |-> None, source |-> None, chunker |-> "punct", max_chars |-> None,
     path |-> None, origin |-> None, async_mode |-> TRUE, job_id |-> "",
     details |-> FALSE, query |-> "", strategy |-> "auto", k |-> DefaultK,
     page |-> DefaultPage, per_page |-> DefaultPerPage]

AddCalls ==
    {[op |-> "add",
      args |-> [DefaultArgs EXCEPT !.text = t, !.source = s, !.max_chars = m,
                                   !.path = p, !.origin = g, !.async_mode = y]] :
        t \in {None, Str("t")}, s \in {None, Str("s")}, m \in {None, Num(0)},
        p \in {None, Str("p")}, g \in {None, Str("o")}, y \in BOOLEAN}
ProgressCalls ==
    {[op |-> "progress", args |-> [DefaultArgs EXCEPT !.job_id = j, !.details = d]] :
        j \in {"a", "b"}, d \in BOOLEAN}
SearchCalls ==
    {[op |-> "search", args |-> [DefaultArgs EXCEPT !.query = q, !.k = k]] :
        q \in {"q1", "q2"}, k \in {MaxNum, DefaultK}}
ListCalls ==
    {[op |-> "list", args |-> [DefaultArgs EXCEPT !.page = p]] :
        p \in DefaultPage..(DefaultPage + MaxNum)}
ClearCalls == {[op |-> "clear", args |-> DefaultArgs]}
Invocations == AddCalls \cup ProgressCalls \cup SearchCalls \cup ListCalls \cup ClearCalls

Config(url, model) ==
    [api_key |-> "key", knowledge_base |-> "default", base_url |-> url,
     embedding_model |-> model, timeout |-> DefaultTimeout]
Configs ==
    {Config(u, m) : u \in {"http://h", "http://h/"}, m \in {None, Str(""), Str("ds1")}}

\* The bodies the service may answer with: JSON objects, JSON that is not an
\* object, and text that is not JSON.
IdValues == {Absent, None, Str(""), Str("a"), Num(0), Num(MaxNum)}
JobIdValues == {Absent, Str("b"), Num(0)}
ProgressValues == {Num(n) : n \in 0..MaxNum} \cup {None, Str("1"), Str("x")}
ResultsValues == {None, List(<<>>), List(<<1, 2>>), List(<<2, 1>>)}
ObjectBodies ==
    {Dict([NoFields EXCEPT !["id"] = i, !["job_id"] = j]) :
        i \in IdValues, j \in JobIdValues}
    \cup {Dict([NoFields EXCEPT !["progress"] = p]) : p \in ProgressValues}
    \cup {Dict([NoFields EXCEPT !["results"] = r]) : r \in ResultsValues}
    \cup {Dict([NoFields EXCEPT !["error"] = e]) : e \in {None, Str("not found")}}
    \cup {Dict([NoFields EXCEPT !["detail"] = Str("d")])}
NonObjectBodies == {Lift(None), Lift(Num(1)), Lift(Str("ok")), Lift(List(<<1, 2, 3>>))}
Texts == {"", "<html>"}
Statuses == {200, 399, 400, 404}
JsonResponse(st, v) == [status |-> st, isjson |-> TRUE, text |-> "", val |-> v]
TextResponse(st, x) == [status |-> st, isjson |-> FALSE, text |-> x, val |-> Lift(None)]
Responses ==
    {JsonResponse(st, v) : st \in Statuses, v \in ObjectBodies \cup NonObjectBodies}
    \cup {TextResponse(st, x) : st \in Statuses, x \in Texts}
NoResponse == [status |-> 0, isjson |-> FALSE, text |-> "", val |-> Lift(None)]

\* The smaller inputs of the runs in which calls overlap.
ConcInvocations ==
    {[op |-> "search", args |-> [DefaultArgs EXCEPT !.query = "q1"]],
     [op |-> "list", args |-> [DefaultArgs EXCEPT !.page = 2]],
     [op |-> "add", args |-> [DefaultArgs EXCEPT !.text = Str("t")]]}
ConcConfigs == {Config("http://h/", Str("ds1"))}
ConcResponses ==
    {JsonResponse(200, Dict([NoFields EXCEPT !["results"] = List(<<1, 2>>)])),
     JsonResponse(200, Dict([NoFields EXCEPT !["id"] = Str("a")])),
     JsonResponse(404, Dict([NoFields EXCEPT !["error"] = Str("not found")]))}

\* ---------------------------------------------------------------- state

Calls == 1..NumCalls

VARIABLES
    self,    \* the LatticeDB instance: its five fields
    pc,      \* pc[c]: where call c stands
    op,      \* op[c], args[c]: the operation called and its arguments
    args,
    req,     \* req[c]: the call's request, as far as it is built
    conns,   \* the calls whose httpx.Client is open
    wire,    \* wire[c]: the request the call put on the network
    nsent,   \* nsent[c]: the number of requests the call has issued
    net,     \* net[c]: the response the service gave to the call's request
    resp,    \* resp[c]: the call's local `response`
    ret,     \* ret[c]: the payload _request returned to the operation
    out      \* out[c]: what the call handed its caller

vars == <<self, pc, op, args, req, conns, wire, nsent, net, resp, ret, out>>

InitCalls ==
    /\ pc = [c \in Calls |-> "idle"]
    /\ op = [c \in Calls |-> ""]
    /\ args = [c \in Calls |-> DefaultArgs]
    /\ req = [c \in Calls |-> NoRequest]
    /\ conns = {}
    /\ wire = [c \in Calls |-> NoRequest]
    /\ nsent = [c \in Calls |-> 0]
    /\ net = [c \in Calls |-> NoResponse]
    /\ resp = [c \in Calls |-> NoResponse]
    /\ ret = [c \in Calls |-> Lift(None)]
    /\ out = [c \in Calls |-> NoOutcome]

Init == self \in Configs /\ InitCalls
InitConc == self \in ConcConfigs /\ InitCalls

\* The caller issues one call at a time.
Sequential(c) == \A d \in Calls \ {c} : pc[d] = "idle"

\* The operation is entered: add validates (lines 67-70), then each
\* operation builds its request (up to the call of _request).
Call(c, inv) ==
    /\ pc[c] = "idle"
    /\ op' = [op EXCEPT ![c] = inv.op]
    /\ args' = [args EXCEPT ![c] = inv.args]
    /\ IF inv.op = "add" /\ add_validate(inv.args) # NoOutcome
       THEN /\ pc' = [pc EXCEPT ![c] = "done"]
            /\ out' = [out EXCEPT ![c] = add_validate(inv.args)]
            /\ req' = req
       ELSE /\ pc' = [pc EXCEPT ![c] = "request"]
            /\ req' = [req EXCEPT ![c] = operation_request(self, inv.op, inv.args)]
            /\ out' = out
    /\ UNCHANGED <<self, conns, wire, nsent, net, resp, ret>>

\* Lines 37-40: headers, url, and the with block is entered.
Open(c) ==
    /\ pc[c] = "request"
    /\ req' = [req EXCEPT ![c] = request_prepared(self, req[c])]
    /\ conns' = conns \cup {c}
    /\ pc' = [pc EXCEPT ![c] = "open"]
    /\ UNCHANGED <<self, op, args, wire, nsent, net, resp, ret, out>>

\* Line 41: client.request puts the request on the network.
Send(c) ==
    /\ pc[c] = "open"
    /\ wire' = [wire EXCEPT ![c] = req[c]]
    /\ nsent' = [nsent EXCEPT ![c] = nsent[c] + 1]
    /\ pc' = [pc EXCEPT ![c] = "sent"]
    /\ UNCHANGED <<self, op, args, req, conns, net, resp, ret, out>>

\* The service answers the call's request.
Serve(c, r) ==
    /\ pc[c] = "sent"
    /\ net' = [net EXCEPT ![c] = r]
    /\ pc' = [pc EXCEPT ![c] = "served"]
    /\ UNCHANGED <<self, op, args, req, conns, wire, nsent, resp, ret, out>>

\* Line 41 completes: client.request returns the response, and the with
\* block is left, which closes the client.
Receive(c) ==
    /\ pc[c] = "served"
    /\ resp' = [resp EXCEPT ![c] = net[c]]
    /\ conns' = conns \ {c}
    /\ pc' = [pc EXCEPT ![c] = "received"]
    /\ UNCHANGED <<self, op, args, req, wire, nsent, net, ret, out>>

TransportRaised == Raised("Transport", "httpx.TransportError", 0, "", "")

\* A faulty variant of TransportError: the client is not closed when
\* client.request raises (no with block).
TransportError_leak(c) ==
    /\ pc[c] \in {"open", "sent", "served"}
    /\ out' = [out EXCEPT ![c] = TransportRaised]
    /\ pc' = [pc EXCEPT ![c] = "done"]
    /\ UNCHANGED <<self, op, args, req, conns, wire, nsent, net, resp, ret>>

\* Line 41 raises (connection failure, timeout): the with block is left by
\* the exception, which closes the client, and the exception propagates.
TransportError(c) ==
    /\ pc[c] \in {"open", "sent", "served"}
    /\ out' = [out EXCEPT ![c] = TransportRaised]
    /\ conns' = conns \ {c}
    /\ pc' = [pc EXCEPT ![c] = "done"]
    /\ UNCHANGED <<self, op, args, req, wire, nsent, net, resp, ret>>

\* A faulty variant of response_of: the response is kept in a slot all calls share,
\* so a call may decode the response another call has just received.
response_shared(c) ==
    resp[CHOOSE d \in Calls :
            /\ pc[d] = "received"
            /\ \A e \in Calls : pc[e] = "received" => d <= e]

\* `response` is a local of _request (line 41).
response_of(c) == resp[c]

\* Lines 43-54: _request decodes and checks the response.
Decode(c) ==
    /\ pc[c] = "received"
    /\ LET r == request_result(response_of(c))
       IN  IF r.kind = "return"
           THEN /\ ret' = [ret EXCEPT ![c] = r.val]
                /\ pc' = [pc EXCEPT ![c] = "decoded"]
                /\ out' = out
           ELSE /\ out' = [out EXCEPT ![c] = r]
                /\ pc' = [pc EXCEPT ![c] = "done"]
                /\ ret' = ret
    /\ UNCHANGED <<self, op, args, req, conns, wire, nsent, net, resp>>

\* The operation shapes the payload into its result.
Shape(c) ==
    /\ pc[c] = "decoded"
    /\ out' = [out EXCEPT ![c] = operation_result(op[c], args[c], ret[c])]
    /\ pc' = [pc EXCEPT ![c] = "done"]
    /\ UNCHANGED <<self, op, args, req, conns, wire, nsent, net, resp, ret>>

\* The caller has the result; the call's locals are gone.
Return(c) ==
    /\ pc[c] = "done"
    /\ pc' = [pc EXCEPT ![c] = "idle"]
    /\ op' = [op EXCEPT ![c] = ""]
    /\ args' = [args EXCEPT ![c] = DefaultArgs]
    /\ req' = [req EXCEPT ![c] = NoRequest]
    /\ wire' = [wire EXCEPT ![c] = NoRequest]
    /\ nsent' = [nsent EXCEPT ![c] = 0]
    /\ net' = [net EXCEPT ![c] = NoResponse]
    /\ resp' = [resp EXCEPT ![c] = NoResponse]
    /\ ret' = [ret EXCEPT ![c] = Lift(None)]
    /\ out' = [out EXCEPT ![c] = NoOutcome]
    /\ UNCHANGED <<self, conns>>

Next ==
    \E c \in Calls :
        \/ \E inv \in Invocations : Sequential(c) /\ Call(c, inv)
        \/ Open(c)
        \/ Send(c)
        \/ \E r \in Responses : Serve(c, r)
        \/ Receive(c)
        \/ TransportError(c)
        \/ Decode(c)
        \/ Shape(c)
        \/ Return(c)

\* One call at a time, over all the inputs of the model.
Spec == Init /\ [][Next]_vars

NextConc ==
    \E c \in Calls :
        \/ \E inv \in ConcInvocations : Call(c, inv)
        \/ Open(c)
        \/ Send(c)
        \/ \E r \in ConcResponses : Serve(c, r)
        \/ Receive(c)
        \/ TransportError(c)
        \/ Decode(c)
        \/ Shape(c)
        \/ Return(c)

\* Calls overlap freely.
SpecConc == InitConc /\ [][NextConc]_vars

\* --------------------------------------------------------- properties

\* The call has its response: client.request returned.
Responded(c) == resp[c] # NoResponse
\* The response is a JSON object with a status below 400.
ObjectBelow400(r) == r.isjson /\ r.val.t = "dict" /\ r.status < 400
\* The payload holds the key with a value other than null.
HasField(payload, k) == payload.o[k].t \notin {"absent", "none"}
\* The body or query string a request carries.
Carried(r) == IF r.method = "GET" THEN r.params ELSE r.json

BadAddArgs(a) ==
    \/ a.text # None /\ a.source # None
    \/ a.text = None /\ a.source = None

\* C1: an add call given both text and source, or neither, fails with a
\* Validation Error; it issues no request and builds no request body.
C1_AddValidation ==
    \A c \in Calls :
        (pc[c] # "idle" /\ op[c] = "add" /\ BadAddArgs(args[c]))
        => /\ pc[c] = "done"
           /\ out[c].kind = "Validation"
           /\ nsent[c] = 0
           /\ req[c] = NoRequest
           /\ wire[c] = NoRequest
           /\ c \notin conns

C1_Witness ==
    \E c \in Calls :
        /\ pc[c] = "done" /\ op[c] = "add"
        /\ args[c].text = Str("t") /\ args[c].source = Str("s")
        /\ out[c].kind = "Validation" /\ nsent[c] = 0

\* C2: an async add whose response is a JSON object with status below 400
\* returns the id when the response has one, else the job_id when it has
\* one, and fails with a Protocol Error when it has neither; a sync add
\* returns the payload.  The identifier is compared as the string add
\* returns, and a null field is counted as missing: the reading that
\* favours the code.
C2_AsyncAddJobId ==
    \A c \in Calls :
        (pc[c] = "done" /\ op[c] = "add" /\ Responded(c) /\ ObjectBelow400(resp[c]))
        => LET payload == resp[c].val
           IN  IF ~args[c].async_mode THEN out[c] = Returned(payload)
               ELSE IF HasField(payload, "id")
               THEN out[c] = Returned(Lift(Str(PyStr(Lift(payload.o["id"])))))
               ELSE IF HasField(payload, "job_id")
               THEN out[c] = Returned(Lift(Str(PyStr(Lift(payload.o["job_id"])))))
               ELSE out[c].kind = "Protocol"

\* C3: a response with status >= 400 makes the call fail with a Service
\* Error that carries the status and, as its message, the payload's error
\* field when the payload has one and the stringified payload otherwise;
\* no result is returned.
C3_ServiceError ==
    \A c \in Calls :
        (pc[c] = "done" /\ Responded(c) /\ resp[c].status >= 400)
        => LET payload == request_payload(resp[c])
           IN  /\ out[c].kind = "Service"
               /\ out[c].code = resp[c].status
               /\ out[c].message =
                     IF payload.t = "dict" /\ payload.o["error"].t # "absent"
                     THEN PyStr(Lift(payload.o["error"]))
                     ELSE PyStr(payload)
               /\ out[c].val = Lift(None)

\* C4: a response with status below 400 whose body is JSON but not an
\* object makes the call fail with a Protocol Error; the payload reaches
\* neither the operation nor the caller.
C4_NonObject ==
    \A c \in Calls :
        (Responded(c) /\ pc[c] \in {"decoded", "done"}
            /\ resp[c].isjson /\ resp[c].val.t # "dict" /\ resp[c].status < 400)
        => /\ pc[c] = "done"
           /\ out[c].kind = "Protocol"
           /\ out[c].val = Lift(None)
           /\ ret[c] = Lift(None)

C4_Witness ==
    \E c \in Calls :
        /\ pc[c] = "done" /\ op[c] = "list"
        /\ resp[c] = JsonResponse(200, Lift(List(<<1, 2, 3>>)))
        /\ out[c].kind = "Protocol"

\* What the caller supplied for a key of a request, Absent when unset.
Supplied(s, o, a, k) ==
    CASE k = "knowledge_base" -> Str(s.knowledge_base)
      [] k = "embedding_model" /\ o # "progress" ->
           IF s.embedding_model = None THEN Absent ELSE s.embedding_model
      [] o = "add" /\ k = "chunker" -> Str(a.chunker)
      [] o = "add" /\ k = "async" -> Bool(a.async_mode)
      [] o = "add" /\ k = "max_chars" -> IF a.max_chars = None THEN Absent ELSE a.max_chars
      [] o = "add" /\ k = "path" -> IF a.path = None THEN Absent ELSE a.path
      [] o = "add" /\ k = "origin" -> IF a.origin = None THEN Absent ELSE a.origin
      [] o = "add" /\ k = "text" -> IF a.text = None THEN Absent ELSE a.text
      [] o = "add" /\ k = "source" -> IF a.source = None THEN Absent ELSE a.source
      [] o = "search" /\ k = "query" -> Str(a.query)
      [] o = "search" /\ k = "k" -> Num(a.k)
      [] o = "search" /\ k = "strategy" -> Str(a.strategy)
      [] o = "list" /\ k = "page" -> Num(a.page)
      [] o = "list" /\ k = "per_page" -> Num(a.per_page)
      [] OTHER -> Absent

\* C5: in every request add, search, list and clear build and send, a field
\* the caller left unset is absent, no field is null, a field that is
\* present holds the value the caller supplied, and knowledge_base (and, for
\* add, chunker) is present.
C5_OmittedNotNull ==
    \A c \in Calls : \A r \in {req[c], wire[c]} \ {NoRequest} :
        op[c] \in {"add", "search", "list", "clear"}
        => /\ \A k \in BodyKeys :
                /\ r.json[k].t # "none" /\ r.params[k].t # "none"
                /\ Supplied(self, op[c], args[c], k) = Absent => Carried(r)[k] = Absent
                /\ Carried(r)[k] # Absent
                      => Carried(r)[k] = Supplied(self, op[c], args[c], k)
           /\ Carried(r)["knowledge_base"] = Str(self.knowledge_base)
           /\ op[c] = "add" => Carried(r)["chunker"] = Str(args[c].chunker)

C5_Witness ==
    \E c \in Calls :
        /\ op[c] = "add" /\ wire[c] # NoRequest
        /\ self.embedding_model = None
        /\ args[c].path = None /\ args[c].max_chars = None /\ args[c].origin = Str("o")
        /\ wire[c].json["path"] = Absent /\ wire[c].json["origin"] = Str("o")

\* C6: a progress call whose response is a JSON object with status below
\* 400 returns, without details, a number: the response's progress field,
\* or 0.0 when the field is absent; with details it returns the response
\* object unchanged.  Both are the GET of /api/rag/progress/{jobId}.
C6_Progress ==
    \A c \in Calls :
        (pc[c] = "done" /\ op[c] = "progress" /\ Responded(c) /\ ObjectBelow400(resp[c]))
        => LET payload == resp[c].val
               field == payload.o["progress"]
           IN  /\ wire[c].method = "GET"
               /\ wire[c].path = "/api/rag/progress/" \o args[c].job_id
               /\ IF args[c].details THEN out[c] = Returned(payload)
                  ELSE /\ out[c].kind = "return"
                       /\ out[c].val.t = "num"
                       /\ field.t = "absent" => out[c].val = Lift(Num(0))
                       /\ field.t = "num" => out[c].val = Lift(field)

\* C7: a search call whose response is a JSON object with status below 400
\* returns the response's results field as it is, and the empty sequence
\* when the field is absent; it does not fail.
C7_SearchResults ==
    \A c \in Calls :
        (pc[c] = "done" /\ op[c] = "search" /\ Responded(c) /\ ObjectBelow400(resp[c]))
        => LET field == resp[c].val.o["results"]
           IN  /\ out[c].kind = "return"
               /\ out[c].val = Lift(IF field.t = "absent" THEN List(<<>>) ELSE field)

C7_Witness ==
    \E c \in Calls :
        /\ pc[c] = "done" /\ op[c] = "search" /\ Responded(c)
        /\ ObjectBelow400(resp[c]) /\ resp[c].val.o["results"].t = "absent"
        /\ out[c] = Returned(Lift(List(<<>>)))

\* What a call makes, on its own, of the response the service gave it.
AloneResult(o, a, response) ==
    LET r == request_result(response)
    IN  IF r.kind = "return" THEN operation_result(o, a, r.val) ELSE r

NonInterference ==
    \A c \in Calls :
        /\ wire[c] # NoRequest
              => wire[c] = request_prepared(self, operation_request(self, op[c], args[c]))
        /\ Responded(c) => resp[c] = net[c]
        /\ (pc[c] = "done" /\ Responded(c)) => out[c] = AloneResult(op[c], args[c], net[c])

\* The step leaves alone every local of the calls that do not move.
OthersUntouched ==
    \A c \in Calls :
        pc'[c] = pc[c]
        => <<op[c], args[c], req[c], wire[c], nsent[c], net[c], resp[c], ret[c], out[c]>>'
           = <<op[c], args[c], req[c], wire[c], nsent[c], net[c], resp[c], ret[c], out[c]>>

\* C8: with calls overlapping on one client, each call sends the request and
\* gets the result it would alone, given the responses the service gave it;
\* no step of a call touches another call's state, and no step changes the
\* client's configuration.
C8_Independent ==
    [][self' = self /\ OthersUntouched /\ NonInterference']_vars

C8_Witness ==
    /\ pc[1] = "done" /\ op[1] = "search"
    /\ out[1] = Returned(Lift(List(<<1, 2>>)))
    /\ pc[2] = "received" /\ op[2] = "list" /\ resp[2] # resp[1]

\* C9: a call holds one connection from the moment _request opens it until
\* client.request returns or raises, and at no other time: whenever no call
\* is inside client.request, no connection is open.
C9_ConnectionsReleased ==
    conns = {c \in Calls : pc[c] \in {"open", "sent", "served"}}

C9_Witness ==
    \E c \in Calls :
        /\ pc[c] = "done" /\ out[c].kind = "Transport" /\ nsent[c] = 1
        /\ conns = {}

\* C10: a response with status below 400 whose body is not JSON makes the
\* call fail with a Protocol Error; a call that returns a result had a JSON
\* object for its response body.
C10_UndecodableBody ==
    \A c \in Calls :
        (pc[c] = "done" /\ Responded(c))
        => /\ (~resp[c].isjson /\ resp[c].status < 400) => out[c].kind = "Protocol"
           /\ out[c].kind = "return" => (resp[c].isjson /\ resp[c].val.t = "dict")

====
